---------------------------- MODULE Spec2Model ----------------------------
(***************************************************************************)
(* Model of src/util/src/hse_err.c: the packed error code (merr_t), its    *)
(* encoder merr_pack, the location decoder merr_file, the errno message    *)
(* resolver merr_strerror and the formatter merr_strinfo.                  *)
(*                                                                         *)
(* merr_t is a 64 bit word split into four fields, from the top: the       *)
(* signed file offset, the line, the reserved bit and the errno.  The      *)
(* model keeps that order and the arithmetic (shifts, masks, sign          *)
(* extension, wrap at the word width) and scales the widths of the three   *)
(* multi-bit fields: FileBits, LineBits and ErrnoBits.  `int' is one bit   *)
(* wider than the errno field, as in the program (32 against 31).          *)
(*                                                                         *)
(* Strings are sequences of characters; a C string in memory is the        *)
(* sequence without its terminator, NUL stands for the terminator in a     *)
(* buffer.                                                                 *)
(***************************************************************************)
EXTENDS Integers, Sequences, FiniteSets, TLC

\* ------------------------------------------------------------------ bounds

\* Width of the file-offset field (64 bit layout: 16).
FileBits == 4
\* Width of the line field (64 bit layout: 16).
LineBits == 4
\* Width of the errno field (64 bit layout: 31); EBUG must fit.
ErrnoBits == 10
\* Capacity of the caller's buffer; merr_strinfo is given every buf_sz up to it.
BufCap == 38

\* ----------------------------------------------------- words and bit fields

Pow2(n) == 2 ^ n

\* Width of merr_t and of s64/u64.
WordBits == FileBits + LineBits + 1 + ErrnoBits
\* Width of int.
IntBits == ErrnoBits + 1
INT_MAX == Pow2(IntBits - 1) - 1
INT_MIN == -Pow2(IntBits - 1)

MERR_RSVD_SHIFT == ErrnoBits
MERR_LINE_SHIFT == ErrnoBits + 1
MERR_FILE_SHIFT == ErrnoBits + 1 + LineBits

MERR_ERRNO_MASK == Pow2(ErrnoBits) - 1
MERR_RSVD_MASK == Pow2(MERR_RSVD_SHIFT)
MERR_LINE_MASK == (Pow2(LineBits) - 1) * Pow2(MERR_LINE_SHIFT)
MERR_FILE_MASK == (Pow2(FileBits) - 1) * Pow2(MERR_FILE_SHIFT)

\* (merr_t)-1, the value merr_file treats as "no location information".
AllOnes == Pow2(WordBits) - 1

\* Conversion of a signed value to u64: two's complement, modulo the width.
U64(x) == x % Pow2(WordBits)
\* Conversion of a u64 to s64.
S64(u) == IF u >= Pow2(WordBits - 1) THEN u - Pow2(WordBits) ELSE u

RECURSIVE BitAnd(_, _)
BitAnd(a, b) ==
    IF a = 0 \/ b = 0 THEN 0
    ELSE (a % 2) * (b % 2) + 2 * BitAnd(a \div 2, b \div 2)

RECURSIVE BitOr(_, _)
BitOr(a, b) ==
    IF a = 0 THEN b
    ELSE IF b = 0 THEN a
    ELSE (IF a % 2 = 1 \/ b % 2 = 1 THEN 1 ELSE 0) + 2 * BitOr(a \div 2, b \div 2)

\* u << n on a u64: the bits shifted past the top are lost.
Shl(u, n) == (u % Pow2(WordBits - n)) * Pow2(n)
\* s >> n on an s64: arithmetic shift.
Sar(s, n) == s \div Pow2(n)
\* C's integer division, which truncates toward zero.
CDiv(a, b) == IF a >= 0 THEN a \div b ELSE -((-a) \div b)

\* ------------------------------------------------------------------ strings

NUL == "NUL"
\* A byte for which isprint() is false.
SOH == "SOH"
isprint(c) == c # SOH /\ c # NUL

Min(a, b) == IF a < b THEN a ELSE b

\* s[i] of a C string, index from 0; the terminator sits at strlen(s).
CharAt(s, i) == IF i < Len(s) THEN s[i + 1] ELSE NUL
\* The string a pointer i bytes into s points to.
Suffix(s, i) == SubSeq(s, i + 1, Len(s))

Digit(d) == <<"0", "1", "2", "3", "4", "5", "6", "7", "8", "9">>[d + 1]
RECURSIVE Dec(_)
\* "%d" of a non-negative int.
Dec(n) == IF n < 10 THEN <<Digit(n)>> ELSE Dec(n \div 10) \o <<Digit(n % 10)>>

\* Whether t occurs in s as a substring.
Contains(s, t) ==
    \E i \in 0..(Len(s) - Len(t)) : SubSeq(s, i + 1, i + Len(t)) = t

\* ------------------------------------------------- the hse_merr section

MERR_ALIGN == 64
\* sizeof(file): the size of a pointer.
WordSize == 8
PATH_MAX == 4096
EBUG == 666

NULL == 0

str_bug0 == <<"h","s","e","_","m","e","r","r","_","b","u","g","0","u">>
str_bug1 == <<"h","s","e","_","m","e","r","r","_","b","u","g","1","u">>
str_bug2 == <<"h","s","e","_","m","e","r","r","_","b","u","g","2","u">>
str_bug3 == <<"h","s","e","_","m","e","r","r","_","b","u","g","3","u">>
str_base == <<"h","s","e","_","m","e","r","r","_","b","a","s","e","u">>

\* The section holds one string per MERR_ALIGN bytes.  Slots are numbered by
\* their signed distance from hse_merr_base.  The order is the linker's; this
\* is the one a gcc build gives: the five strings of hse_err.c together, last
\* declared first, the per-file strings of the other translation units below
\* and above them.
FirstSlot == -3
\* The last slot's offset is the first that does not fit the file-offset field.
LastSlot == Pow2(FileBits - 1)

\* Far enough from address 0 that every offset the field holds names an address.
hse_merr_base == Pow2(FileBits + 1) * MERR_ALIGN
SlotAddr(k) == hse_merr_base + k * MERR_ALIGN
hse_merr_bug3 == SlotAddr(1)
hse_merr_bug2 == SlotAddr(2)
hse_merr_bug1 == SlotAddr(3)
hse_merr_bug0 == SlotAddr(4)
start_hse_merr == SlotAddr(FirstSlot)
stop_hse_merr == SlotAddr(LastSlot + 1)

\* The string the linker placed in slot k.
SectionString(k) ==
    CASE k = 4 -> str_bug0
      [] k = 3 -> str_bug1
      [] k = 2 -> str_bug2
      [] k = 1 -> str_bug3
      [] k = 0 -> str_base
      [] k = -1 -> <<"/","r","/","k","v","s","/","c","0",".","c">>
      [] k = -2 -> <<"/","l","/","u","/","e",".","c">>
      [] k = -3 -> <<"m",".","c">>
      [] k = 5 -> <<"t","/","n",".","c">>
      [] OTHER -> <<"/","s","/","c","n","/","k",".","c">>

InSection(p) == p >= start_hse_merr /\ p < stop_hse_merr

\* What a read outside the section can find: the behaviour is undefined, so
\* the outcome is one of these, chosen by the environment: a trap, or bytes
\* that happen to form a string.
FAULT == <<"FAULT">>
WildOutcomes ==
    { FAULT,
      <<"/","o","/","p","/","q",".","c">>,
      <<"/","x", SOH, "/","y">>,
      <<>> }

\* The C string at address p; w is what memory outside the section holds.
StringAt(p, w) ==
    IF InSection(p) /\ p % MERR_ALIGN = 0
    THEN SectionString((p - hse_merr_base) \div MERR_ALIGN)
    ELSE w

\* ---------------------------------------------------------------- merr_pack

IS_ALIGNED(p, a) == p % a = 0

\* -errnum for a negative int.  -INT_MIN overflows, which is undefined: ub is
\* the value the build produces there.
NegateNoOp(errnum, ub) == errnum
Negate(errnum, ub) == IF errnum = INT_MIN THEN ub ELSE -errnum

\* The test that sends merr_pack to finish: "file outside libhse".
OutsideLibhse(file) == ~(file > start_hse_merr \/ file < stop_hse_merr)

\* off = (file - hse_merr_base) / MERR_ALIGN, an s64.
FileOff(file) == CDiv(file - hse_merr_base, MERR_ALIGN)

\* Whether off survives the trip through the file-offset field.
FitsFileField(off) ==
    Sar(S64(Shl(U64(off), MERR_FILE_SHIFT)), MERR_FILE_SHIFT) = off

\* The finish: label: the reserved bit, the line and the errno are or-ed in.
FinishNoRsvd(err, line, errnum) ==
    LET e2 == BitOr(err, BitAnd(Shl(U64(line), MERR_LINE_SHIFT), MERR_LINE_MASK))
    IN  BitOr(e2, BitAnd(U64(errnum), MERR_ERRNO_MASK))
Finish(err, line, errnum) ==
    LET e1 == BitOr(err, Shl(1, MERR_RSVD_SHIFT))
        e2 == BitOr(e1, BitAnd(Shl(U64(line), MERR_LINE_SHIFT), MERR_LINE_MASK))
    IN  BitOr(e2, BitAnd(U64(errnum), MERR_ERRNO_MASK))

merr_pack(errnum, file, line, ub) ==
    IF errnum = 0 THEN 0
    ELSE
      LET mag == IF errnum < 0 THEN Negate(errnum, ub) ELSE errnum
      IN  IF file = NULL THEN Finish(0, line, mag)
          ELSE
            LET f1 == IF ~IS_ALIGNED(file, WordSize) THEN hse_merr_bug0 ELSE file
            IN  IF OutsideLibhse(f1) THEN Finish(0, line, mag)
                ELSE
                  LET f2 == IF ~IS_ALIGNED(f1, MERR_ALIGN) THEN hse_merr_bug1 ELSE f1
                      off == FileOff(f2)
                      err == IF FitsFileField(off)
                             THEN Shl(U64(off), MERR_FILE_SHIFT)
                             ELSE 0
                  IN  Finish(err, line, mag)

\* ---------------------------------------------------------------- merr_file

\* The result of merr_file: NULL, a pointer (its address and the string it
\* points to), or no return at all when the scan traps.
NullResult == [kind |-> "null"]
FaultResult == [kind |-> "fault"]
PtrResult(a, s) == [kind |-> "ptr", addr |-> a, str |-> s]

\* off = (s64)(err & MERR_FILE_MASK) >> MERR_FILE_SHIFT
DecodeOff(err) == Sar(S64(BitAnd(err, MERR_FILE_MASK)), MERR_FILE_SHIFT)

\* The test that replaces the candidate address by hse_merr_bug3.
OutsideTable(file) == ~(file > start_hse_merr \/ file < stop_hse_merr)

RECURSIVE Scan(_, _, _, _)
\* The backward loop over the string s, `file' being s + pos: the index the
\* loop leaves `file' at, or -1 when it returns hse_merr_bug2.
Scan(s, pos, len, slash) ==
    IF len = 0 THEN pos
    ELSE IF CharAt(s, pos) # NUL /\ ~isprint(CharAt(s, pos)) THEN -1
    ELSE IF CharAt(s, pos - 1) = "/"
         THEN IF slash + 1 >= 2 THEN pos
              ELSE Scan(s, pos - 1, len - 1, slash + 1)
         ELSE Scan(s, pos - 1, len - 1, slash)

\* w: what memory outside the section holds (see WildOutcomes).
merr_file(err, w) ==
    IF err = 0 \/ err = AllOnes THEN NullResult
    ELSE
      LET off == DecodeOff(err)
      IN  IF off = 0 THEN NullResult
          ELSE
            LET f0 == hse_merr_base + off * MERR_ALIGN
                file == IF OutsideTable(f0) THEN hse_merr_bug3 ELSE f0
                s == StringAt(file, w)
            IN  IF s = FAULT THEN FaultResult
                ELSE
                  LET len == Min(Len(s), PATH_MAX)
                      pos == Scan(s, len, len, 0)
                  IN  IF pos = -1
                      THEN PtrResult(hse_merr_bug2, str_bug2)
                      ELSE PtrResult(file + pos, Suffix(s, pos))

\* merr_errno() and merr_lineno() of hse_err.h.
merr_errno(err) == BitAnd(err, MERR_ERRNO_MASK)
merr_lineno(err) == BitAnd(err, MERR_LINE_MASK) \div Pow2(MERR_LINE_SHIFT)

\* ------------------------------------------------------------- the buffer

\* A cell of the caller's buffer nothing has written yet.
UNWRITTEN == "?"
FreshBuf == [i \in 1..BufCap |-> UNWRITTEN]

\* The first n characters of s and a terminator, stored at buf + at.
StoreUnbounded(buf, at, s, size) ==
    [i \in DOMAIN buf |->
        IF i - 1 >= at /\ i - 1 < at + Len(s) THEN s[i - at]
        ELSE IF i - 1 = at + Len(s) THEN NUL
        ELSE buf[i]]
Store(buf, at, s, size) ==
    IF size = 0 THEN buf
    ELSE LET n == Min(Len(s), size - 1)
         IN  [i \in DOMAIN buf |->
                IF i - 1 >= at /\ i - 1 < at + n THEN s[i - at]
                ELSE IF i - 1 = at + n THEN NUL
                ELSE buf[i]]

\* strlcpy(buf + at, src, size): at most size - 1 characters and a terminator;
\* the result is strlen(src).
strlcpy(buf, at, src, size) == [buf |-> Store(buf, at, src, size), ret |-> Len(src)]

\* snprintf(buf + at, size, ...) of the formatted text s: the same store, and
\* the length the whole text has.
snprintf(buf, at, s, size) == [buf |-> Store(buf, at, s, size), ret |-> Len(s)]

RECURSIVE CStrFrom(_, _)
\* The C string at buf + at: the characters up to the first terminator.
CStrFrom(buf, at) ==
    IF at >= Len(buf) \/ buf[at + 1] = NUL THEN <<>>
    ELSE <<buf[at + 1]>> \o CStrFrom(buf, at + 1)

\* ------------------------------------------------------------ the platform

EINVAL == 22
ERANGE == 34

\* The platform's table of errno messages, for the errnos the model uses.
SysErrnos == {0, 1, 2}
SysMessage(n) ==
    CASE n = 0 -> <<"S","u","c","c","e","s","s">>
      [] n = 1 -> <<"O","p","e","r","a","t","i","o","n"," ","n","o","t"," ","p","e","r","m","i","t","t","e","d">>
      [] n = 2 -> <<"N","o"," ","s","u","c","h"," ","f","i","l","e"," ","o","r"," ","d","i","r","e","c","t","o","r","y">>

\* The message strerror_r has for errnum: the table's, or "Unknown error <n>".
StrerrorText(errnum) ==
    IF errnum \in SysErrnos THEN SysMessage(errnum)
    ELSE <<"U","n","k","n","o","w","n"," ","e","r","r","o","r"," ">> \o Dec(errnum)

\* strerror_r (the XSI one, which returns an int): an unknown errnum stores
\* "Unknown error <n>" and gives EINVAL; a known one stores what fits and gives
\* ERANGE when the message and its terminator do not fit.
strerror_r(errnum, buf, at, size) ==
    [rc |-> IF errnum \notin SysErrnos THEN EINVAL
            ELSE IF size <= Len(StrerrorText(errnum)) THEN ERANGE
            ELSE 0,
     buf |-> Store(buf, at, StrerrorText(errnum), size)]

\* The string strerror_r leaves in a scratch buffer of the given size.
ScratchText(errnum, size) ==
    SubSeq(StrerrorText(errnum), 1, Min(Len(StrerrorText(errnum)), size - 1))

\* -------------------------------------------------------------- merr_strerror

str_software_bug == <<"H","S","E"," ","s","o","f","t","w","a","r","e"," ","b","u","g">>
str_invalid_code == <<"<","i","n","v","a","l","i","d"," ","e","r","r","o","r"," ","c","o","d","e",">">>
str_format_error == <<"<","e","r","r","o","r"," ","f","o","r","m","a","t","i","n","g"," ","e","r","r","o","r"," ","m","e","s","s","a","g","e",">">>

errbuf_sz == 1000

\* Whether merr_strerror takes the EBUG shortcut.
IsEbugNever(errnum) == FALSE
IsEbug(errnum) == errnum = EBUG

\* merr_strerror(err, buf + at, size); mallocOK: whether malloc(errbuf_sz)
\* returns memory.  The result: the buffer, the returned size and the path taken.
merr_strerror(err, buf, at, size, mallocOK) ==
    LET errnum == merr_errno(err)
    IN  IF IsEbug(errnum)
        THEN LET c == strlcpy(buf, at, str_software_bug, size)
             IN  [buf |-> c.buf, ret |-> c.ret, path |-> "EBUG"]
        ELSE
          LET r == strerror_r(errnum, buf, at, size)
          IN  IF r.rc = 0
              THEN [buf |-> r.buf, ret |-> 1 + Len(CStrFrom(r.buf, at)), path |-> "ok"]
              ELSE IF r.rc = EINVAL
              THEN LET c == strlcpy(r.buf, at, str_invalid_code, size)
                   IN  [buf |-> c.buf, ret |-> 1 + c.ret, path |-> "EINVAL"]
              ELSE IF ~mallocOK
              THEN LET c == strlcpy(r.buf, at, str_format_error, size)
                   IN  [buf |-> c.buf, ret |-> c.ret, path |-> "ENOMEM"]
              ELSE
                LET errbuf == ScratchText(errnum, errbuf_sz)
                    c == strlcpy(r.buf, at, errbuf, size)
                IN  [buf |-> c.buf, ret |-> 1 + c.ret, path |-> "ERANGE"]

\* --------------------------------------------------------------- merr_strinfo

\* need_sz before merr_strinfo stores to it.
UNSET == -1
\* The margin added when not even the prefix fits.
PrefixMargin == 200

\* mpool_strinfo(err, buf, buf_sz) of the mpool library: it stores its message
\* msg, cut to the buffer, and returns buf.  It has no size to report.
mpool_strinfo(err, buf, buf_sz, msg) == Store(buf, 0, msg, buf_sz)

\* The messages mpool_strinfo may produce.
ExtMessages == { <<"m","p",":"," ","I","/","O"," ","e","r","r","o","r">>, <<"m","p">> }

\* "%s:%d: " of the location and the line.
Prefix(str, lineno) == str \o <<":">> \o Dec(lineno) \o <<":", " ">>

\* The estimate stored when the prefix does not fit.
NeedWhenNoRoom(sz) == sz + PrefixMargin

\* merr_strinfo(err, buf, buf_sz, need_sz), buf being fresh.  needp: need_sz is
\* not NULL; w: memory outside the section; msg: mpool's message; mallocOK:
\* malloc succeeds.  The result: the buffer, *need_sz, the string returned,
\* the functions called, merr_strerror's path, and whether the call returned.
merr_strinfo(err, buf_sz, needp, w, msg, mallocOK) ==
    LET idle == [buf |-> FreshBuf, need |-> UNSET, calls |-> {}, path |-> "none",
                 returned |-> TRUE, prefix |-> <<>>]
    IN  IF err = 0
        THEN [idle EXCEPT !.buf = snprintf(FreshBuf, 0, <<"s","u","c","c","e","s","s">>, buf_sz).buf,
                          !.calls = {"snprintf"}]
        ELSE IF BitAnd(err, MERR_RSVD_MASK) = 0
        THEN [idle EXCEPT !.buf = mpool_strinfo(err, FreshBuf, buf_sz, msg),
                          !.calls = {"mpool_strinfo"}]
        ELSE
          LET loc == merr_file(err, w)
          IN  IF loc.kind = "fault"
              THEN [idle EXCEPT !.returned = FALSE, !.calls = {"merr_file"}]
              ELSE
                LET pre == IF loc.kind = "ptr"
                           THEN Prefix(loc.str, merr_lineno(err)) ELSE <<>>
                    p == IF loc.kind = "ptr"
                         THEN snprintf(FreshBuf, 0, pre, buf_sz)
                         ELSE [buf |-> FreshBuf, ret |-> 0]
                    sz == p.ret
                    c1 == {"merr_file"} \cup
                          (IF loc.kind = "ptr" THEN {"snprintf"} ELSE {})
                IN  IF sz < 0
                    THEN LET c == strlcpy(p.buf, 0, str_format_error, buf_sz)
                         IN  [idle EXCEPT !.buf = c.buf,
                                          !.need = IF needp THEN c.ret ELSE UNSET,
                                          !.calls = c1 \cup {"strlcpy"},
                                          !.prefix = pre]
                    ELSE IF sz >= buf_sz
                    THEN [idle EXCEPT !.buf = p.buf,
                                      !.need = IF needp THEN NeedWhenNoRoom(sz) ELSE UNSET,
                                      !.calls = c1,
                                      !.prefix = pre]
                    ELSE
                      LET m == merr_strerror(err, p.buf, sz, buf_sz - sz, mallocOK)
                      IN  [idle EXCEPT !.buf = m.buf,
                                       !.need = IF needp THEN sz + m.ret ELSE UNSET,
                                       !.calls = c1 \cup {"merr_strerror"},
                                       !.path = m.path,
                                       !.prefix = pre]

\* ------------------------------------------------------------------- inputs

\* A code assembled field by field: one that did not come from merr_pack.
MkCode(off, lineno, rsvd, errno) ==
    Shl(U64(off), MERR_FILE_SHIFT) + lineno * Pow2(MERR_LINE_SHIFT)
        + rsvd * Pow2(MERR_RSVD_SHIFT) + errno

\* Codes a caller may hold that merr_pack did not build: success, mpool's
\* codes (reserved bit clear), the all-ones value, and located codes whose
\* file offset points below the section, into it, or at hse_merr_bug2.
ForeignCodes ==
    { 0, 1, AllOnes,
      MkCode(1, 3, 0, 5),
      MkCode(-Pow2(FileBits - 1), 3, 1, 1),
      MkCode(-7, 0, 1, EBUG),
      MkCode(2, 3, 1, 2),
      MkCode(5, 9, 1, 77) }

\* A word-aligned address below the section and one above it.
OutLow == SlotAddr(FirstSlot - 1)
OutHigh == SlotAddr(LastSlot + 2)

Errnums == { 0, 1, -1, 2, -2, EBUG, -EBUG, 200, INT_MAX, INT_MIN }
Files ==
    { NULL,
      SlotAddr(-2) + 3, SlotAddr(-2) + WordSize,
      hse_merr_bug3, hse_merr_base,
      SlotAddr(-1), SlotAddr(-2), SlotAddr(-3), SlotAddr(5), SlotAddr(LastSlot),
      OutLow, OutLow + WordSize, OutHigh }
Lines == { 0, 12, Pow2(LineBits) - 1, Pow2(LineBits) + 3, -1 }
\* What -INT_MIN may evaluate to: the negation wraps to INT_MIN, or is carried
\* out in a wider register and keeps its magnitude.
NegateOverflow == { INT_MIN, -INT_MIN }
BufSizes == 0..BufCap

\* -------------------------------------------------------------------- state

VARIABLES
    op,      \* the last call: "none", "merr_pack", "merr_file", "merr_strinfo"
    errnum,  \* merr_pack's arguments, when packed
    file,
    line,
    packed,  \* err is the result of merr_pack(errnum, file, line)
    err,     \* the code the caller holds
    loc,     \* the result of merr_file(err)
    buf_sz,  \* merr_strinfo's arguments
    needp,   \* need_sz # NULL
    msg,     \* what mpool_strinfo has to say, were it asked
    out      \* the result of merr_strinfo(err, buf, buf_sz, need_sz)

vars == <<op, errnum, file, line, packed, err, loc, buf_sz, needp, msg, out>>

IdleOut == [buf |-> FreshBuf, need |-> UNSET, calls |-> {}, path |-> "none",
            returned |-> TRUE, prefix |-> <<>>]

NoCall ==
    /\ loc' = NullResult
    /\ buf_sz' = 0
    /\ needp' = FALSE
    /\ msg' = <<>>
    /\ out' = IdleOut

Init ==
    /\ op = "none"
    /\ errnum = 0
    /\ file = NULL
    /\ line = 0
    /\ packed = FALSE
    /\ err \in ForeignCodes
    /\ loc = NullResult
    /\ buf_sz = 0
    /\ needp = FALSE
    /\ msg = <<>>
    /\ out = IdleOut

\* A code lives once: it is created at an error site, handed on by value, and
\* consumed at a reporting boundary, by merr_file or by merr_strinfo.

\* err = merr_pack(e, f, l), at an error site of a caller that held success.
Pack(e, f, l, ub) ==
    /\ op = "none"
    /\ err = 0
    /\ op' = "merr_pack"
    /\ errnum' = e
    /\ file' = f
    /\ line' = l
    /\ packed' = TRUE
    /\ err' = merr_pack(e, f, l, ub)
    /\ NoCall

\* merr_file(err)
File(w) ==
    /\ op \in {"none", "merr_pack"}
    /\ op' = "merr_file"
    /\ loc' = merr_file(err, w)
    /\ buf_sz' = 0
    /\ needp' = FALSE
    /\ msg' = <<>>
    /\ out' = IdleOut
    /\ UNCHANGED <<errnum, file, line, packed, err>>

\* merr_strinfo(err, buf, sz, np ? &need : NULL)
StrInfo(sz, np, w, m, mallocOK) ==
    /\ op \in {"none", "merr_pack"}
    /\ op' = "merr_strinfo"
    /\ loc' = NullResult
    /\ buf_sz' = sz
    /\ needp' = np
    /\ msg' = m
    /\ out' = merr_strinfo(err, sz, np, w, m, mallocOK)
    /\ UNCHANGED <<errnum, file, line, packed, err>>

\* The environment's choices are enumerated only where the call consults them:
\* memory outside the section when the code's candidate address lies there,
\* mpool's message when the reserved bit is clear, malloc when the platform
\* knows the errno.
ReadsOutside(c) ==
    /\ c # 0
    /\ c # AllOnes
    /\ DecodeOff(c) # 0
    /\ ~InSection(hse_merr_base + DecodeOff(c) * MERR_ALIGN)
\* A file pointer handed to merr_pack points to a string, so reading it back is
\* no trap; any other address outside the section may be unmapped.
WildChoices(c) ==
    IF ~ReadsOutside(c) THEN {<<>>}
    ELSE IF packed /\ file = hse_merr_base + DecodeOff(c) * MERR_ALIGN
         THEN WildOutcomes \ {FAULT}
         ELSE WildOutcomes
MsgChoices(c) ==
    IF c # 0 /\ BitAnd(c, MERR_RSVD_MASK) = 0 THEN ExtMessages ELSE {<<>>}
MallocChoices(c) == IF merr_errno(c) \in SysErrnos THEN BOOLEAN ELSE {TRUE}
NegateChoices(e) == IF e = INT_MIN THEN NegateOverflow ELSE {0}

Next ==
    \/ \E e \in Errnums, f \in Files, l \in Lines :
          \E ub \in NegateChoices(e) : Pack(e, f, l, ub)
    \/ \E w \in WildChoices(err) : File(w)
    \/ \E sz \in BufSizes, np \in BOOLEAN, w \in WildChoices(err),
          m \in MsgChoices(err), mallocOK \in MallocChoices(err) :
          StrInfo(sz, np, w, m, mallocOK)

Spec == Init /\ [][Next]_vars

\* ------------------------------------------------------------------ claims

RsvdSet(c) == BitAnd(c, MERR_RSVD_MASK) # 0
Abs(n) == IF n < 0 THEN -n ELSE n
LineInRange(l) == l >= 0 /\ l < Pow2(LineBits)
\* The slot a section address names, and whether the field can hold it.
SlotOf(p) == (p - hse_merr_base) \div MERR_ALIGN
SlotFits(k) == k >= -Pow2(FileBits - 1) /\ k < Pow2(FileBits - 1)
\* A file pointer of the string table: in the section and MERR_ALIGN-aligned.
TableFile(p) == InSection(p) /\ p % MERR_ALIGN = 0

\* The suffix of s after its second-to-last "/": its last two path segments;
\* all of s when it has fewer than two.
LastTwoSegments(s) ==
    LET slashes == {i \in 1..Len(s) : s[i] = "/"}
    IN  IF Cardinality(slashes) < 2 THEN s
        ELSE LET j == CHOOSE i \in slashes :
                        Cardinality({k \in slashes : k > i}) = 1
             IN  SubSeq(s, j + 1, Len(s))

\* The message in the buffer merr_strinfo was given.
Message == CStrFrom(out.buf, 0)

\* C1: merr_pack returns 0 when errnum is 0, and a code with the reserved bit
\* set when it is not, whatever the file and the line: the result is 0 exactly
\* when errnum is 0.
C1_ZeroIffSuccess ==
    packed =>
        /\ (errnum = 0 => err = 0)
        /\ (errnum # 0 => RsvdSet(err))
        /\ (err = 0 <=> errnum = 0)

\* C1 witness: INT_MIN packed beside a file pointer: the errno field is empty
\* and the code is still not 0.
C1_Witness ==
    /\ packed
    /\ errnum = INT_MIN
    /\ file # NULL
    /\ merr_errno(err) = 0
    /\ err # 0

\* C2: for 1 <= |errnum| <= the errno field's maximum and a line the line field
\* holds, the errno field of the packed code is |errnum| and the line field is
\* the line, whatever the file.
C2_ErrnoLineRoundTrip ==
    (packed /\ Abs(errnum) >= 1 /\ Abs(errnum) <= MERR_ERRNO_MASK /\ LineInRange(line))
        => /\ BitAnd(err, MERR_ERRNO_MASK) = Abs(errnum)
           /\ BitAnd(err, MERR_LINE_MASK) \div Pow2(MERR_LINE_SHIFT) = line

\* C2 witness: a negative errnum and the largest line packed with a file below
\* hse_merr_base, whose offset fills the file field with a negative number.
C2_Witness ==
    /\ packed
    /\ errnum = -EBUG
    /\ line = Pow2(LineBits) - 1
    /\ DecodeOff(err) < 0
    /\ merr_errno(err) = EBUG

\* C3: for a nonzero errnum and a word-aligned file pointer outside
\* [__start_hse_merr, __stop_hse_merr], merr_pack returns a code with the
\* reserved bit set and a zero file-offset field, and merr_file of it is NULL.
C3_OutsideIsAnonymous ==
    (/\ packed
     /\ errnum # 0
     /\ file # NULL
     /\ file % WordSize = 0
     /\ (file < start_hse_merr \/ file > stop_hse_merr))
        => /\ RsvdSet(err)
           /\ BitAnd(err, MERR_FILE_MASK) = 0
           /\ (op = "merr_file" => loc = NullResult)

\* C4: for a nonzero errnum, a line in range and a file of the string table
\* whose offset fits the field, merr_file of the packed code points into that
\* file's string, at its last two path segments.  Stated for the files other
\* than hse_merr_base: offset 0 is how a code says it has no file.
C4_LocationRoundTrip ==
    (/\ op = "merr_file"
     /\ packed
     /\ errnum # 0
     /\ LineInRange(line)
     /\ TableFile(file)
     /\ file # hse_merr_base
     /\ SlotFits(SlotOf(file)))
        => /\ loc.kind = "ptr"
           /\ loc.str = LastTwoSegments(SectionString(SlotOf(file)))
           /\ loc.addr + Len(loc.str) = file + Len(SectionString(SlotOf(file)))

\* C5 as claimed: the message merr_strinfo produces for merr_pack(EBUG, f, l)
\* contains "HSE software bug", for every f, l and buffer size.
C5_EbugAlwaysNamed ==
    (op = "merr_strinfo" /\ packed /\ errnum = EBUG)
        => Contains(Message, str_software_bug)

\* C5 as amended: it does for every f and l when the buffer has room for the
\* location prefix, the 16 characters of "HSE software bug" and a terminator.
C5_EbugNamedWhenRoom ==
    (/\ op = "merr_strinfo"
     /\ packed
     /\ errnum = EBUG
     /\ buf_sz > Len(out.prefix) + Len(str_software_bug))
        => /\ out.returned
           /\ Contains(Message, str_software_bug)

\* C5 witness: EBUG with a file of the table, in a buffer of exactly the size
\* the message needs.
C5_Witness ==
    /\ op = "merr_strinfo"
    /\ packed
    /\ errnum = EBUG
    /\ file = SlotAddr(-1)
    /\ Len(out.prefix) > 0
    /\ buf_sz = Len(out.prefix) + Len(str_software_bug) + 1
    /\ Message = out.prefix \o str_software_bug

\* C6: when the reserved bit is set and the "<file>:<line>: " prefix does not
\* fit in buf_sz bytes, merr_strinfo does not call merr_strerror, stores
\* nothing at or past buf + buf_sz, and reports through need_sz the prefix
\* length plus the margin of 200, which is at least the prefix length.
C6_PrefixTooLong ==
    (/\ op = "merr_strinfo"
     /\ RsvdSet(err)
     /\ out.returned
     /\ Len(out.prefix) >= buf_sz)
        => /\ "merr_strerror" \notin out.calls
           /\ \A i \in DOMAIN out.buf : i - 1 >= buf_sz => out.buf[i] = UNWRITTEN
           /\ needp => (out.need = Len(out.prefix) + PrefixMargin
                        /\ out.need >= Len(out.prefix))

\* C6 witness: a located code whose prefix is longer than a buffer that is not
\* empty; the buffer holds the start of the prefix.
C6_Witness ==
    /\ op = "merr_strinfo"
    /\ RsvdSet(err)
    /\ needp
    /\ buf_sz = 4
    /\ Len(out.prefix) > buf_sz
    /\ Message = SubSeq(out.prefix, 1, 3)

\* C7: for a nonzero code with the reserved bit clear merr_strinfo calls
\* mpool_strinfo and nothing else, returns its string as it is, and reports
\* its required size through need_sz; mpool_strinfo is not called for 0 or
\* for a code with the reserved bit set.
C7_Delegation ==
    op = "merr_strinfo" =>
        /\ (err # 0 /\ ~RsvdSet(err)) =>
              /\ out.calls = {"mpool_strinfo"}
              /\ out.buf = Store(FreshBuf, 0, msg, buf_sz)
              /\ needp => out.need = Len(msg) + 1
        /\ (err = 0 \/ RsvdSet(err)) => "mpool_strinfo" \notin out.calls

\* C8: merr_pack never returns the all-ones value.
C8_NeverAllOnes == packed => err # AllOnes

\* C9: for a code other than 0 and all-ones whose file offset is not 0 and
\* whose candidate address lies outside [__start_hse_merr, __stop_hse_merr],
\* merr_file returns hse_merr_bug3 and reads nothing at the candidate address.
C9_CorruptedOffset ==
    (/\ op = "merr_file"
     /\ err # 0
     /\ err # AllOnes
     /\ DecodeOff(err) # 0
     /\ LET cand == hse_merr_base + DecodeOff(err) * MERR_ALIGN
        IN  cand < start_hse_merr \/ cand > stop_hse_merr)
        => loc = PtrResult(hse_merr_bug3, str_bug3)

\* The whole description of merr_strerror's path.
FullDescription(path, errno) ==
    CASE path = "EBUG" -> str_software_bug
      [] path = "EINVAL" -> str_invalid_code
      [] path = "ENOMEM" -> str_format_error
      [] OTHER -> StrerrorText(errno)

\* C10: for a located code whose prefix fits, need_sz is the prefix length plus
\* the length of the whole description plus 1 for the terminator, on every
\* path of merr_strerror.
C10_NeedIsPrefixPlusDescription ==
    (/\ op = "merr_strinfo"
     /\ RsvdSet(err)
     /\ out.returned
     /\ needp
     /\ Len(out.prefix) < buf_sz)
        => out.need = Len(out.prefix)
                      + Len(FullDescription(out.path, merr_errno(err))) + 1

=============================================================================
